---- MODULE Spec2Model ----
(***************************************************************************)
(* Model of TMGToolbox2/src/Assign/assign_transit.py (class AssignTransit). *)
(*                                                                         *)
(* Seven specifications share the module's variables:                      *)
(*   Spec         the runs of __call__ and run_xtmf through _execute:      *)
(*                matrices, attributes, time functions, the per-class      *)
(*                solver calls and the scope exits;                        *)
(*   SpecEntry    the same runs of a one-class document on a scenario that *)
(*                may lack a required attribute;                           *)
(*   SpecTtf      the same runs of a one-class document on banks of        *)
(*                functions that are full, or refuse a deletion;           *)
(*   SpecHeal     _heal_travel_time_functions on a bank of time functions; *)
(*   SpecWalk     _assign_walk_perception on the links of a network;       *)
(*   SpecNet      _publish_efficient_connector_network on a network;       *)
(*   SpecHeadway  _assign_effective_headway on the lines of a network.     *)
(* Each specification leaves the variables of the others at their idle     *)
(* values.                                                                 *)
(***************************************************************************)
EXTENDS Integers, Sequences, FiniteSets, TLC

VARIABLES
    \* ---- _execute ----
    pc,                     \* position of the run in _execute
    parameters,             \* the parameter document of the run
    environment,            \* what the run finds: entry point, scenario, bank
    bank_matrices,          \* ids of the matrices that exist in the emmebank
    temp_matrix_list,       \* the list yielded by temporary_matrix_manager
    created_matrices,       \* ids of every matrix created without a user id
    demand_matrix_list,
    impedance_matrix_list,
    scenario_attributes,    \* temporary extra attributes that exist
    temp_attribute_list,    \* the list yielded by temporary_attribute_manager
    effective_headway_attribute_list,
    headway_fraction_attribute_list,
    walk_time_perception_attribute_list,
    bank_functions,         \* numbers i of the functions ft<i> of the emmebank
    created,                \* _temp_stsu_ttfs: functions recorded as created
    created_functions,      \* every function number create_function has made
    temp_stsu_map,          \* _temp_stsu_ttfs: old ttf id -> new function number
    open_scopes,            \* the with-blocks entered and not yet left
    built_specs,            \* specifications built so far, in order
    solver_calls,           \* invocations of extended_assignment_tool, in order
    walk_speed,             \* "orig", or "set" once _change_walk_speed has run
    published,              \* whether the choice network has been published
    error,                  \* the exception in flight or raised, "none" if none
    stages,                 \* the stages the run has been through
    \* ---- _heal_travel_time_functions ----
    functions,              \* the bank's functions: [type, expression]
    orig_functions,         \* the functions before the first healing
    heal_runs,              \* number of calls of the healer so far
    heal_error,             \* whether the last call raised
    heal_changes,           \* the value the last call returned
    \* ---- _assign_walk_perception ----
    walk_classes,           \* parameters["transit_classes"] of the walk model
    link_attributes,        \* extra attribute -> link -> value
    walk_done,
    \* ---- _publish_efficient_connector_network ----
    links,                  \* the network's links, pairs <<i_node, j_node>>
    data1,                  \* node -> marker, in the network object
    init_data1,             \* the markers before the call
    visited,                \* nodes the second loop has been through
    net_pc,
    \* ---- _assign_effective_headway ----
    hdw,                    \* transit line -> scheduled headway, in tenths
    effective_headway_attribute, \* transit line -> the result, in hundredths
    effective_headway_slope,\* parameters["effective_headway_slope"], in tenths
    headway_pc

execute_vars == << pc, parameters, environment, bank_matrices, temp_matrix_list, created_matrices,
    demand_matrix_list, impedance_matrix_list, scenario_attributes,
    temp_attribute_list, effective_headway_attribute_list,
    headway_fraction_attribute_list, walk_time_perception_attribute_list,
    bank_functions, created, created_functions, temp_stsu_map, open_scopes,
    built_specs, solver_calls, walk_speed, published, error, stages >>

heal_vars == << functions, orig_functions, heal_runs, heal_error, heal_changes >>

walk_vars == << walk_classes, link_attributes, walk_done >>

net_vars == << links, data1, init_data1, visited, net_pc >>

headway_vars ==
    << hdw, effective_headway_attribute, effective_headway_slope, headway_pc >>

vars == << execute_vars, heal_vars, walk_vars, net_vars, headway_vars >>

(***************************************************************************)
(* Bounds of the model.                                                    *)
(***************************************************************************)
MaxClasses == 2

MaxTtfs == 2

MaxExprLen == 6

MaxHealRuns == 2

MaxWalkClasses == 2

MaxOverrides == 2

MaxLinks == 3

MaxBoardings == 2

(***************************************************************************)
(* Program constants.                                                      *)
(***************************************************************************)
\* "mf0", the id that stands for "not supplied"; matrix ids are modelled by
\* their numbers.
MF0 == 0

\* range(1, 100): the function ids ft1 .. ft99 _temp_stsu_ttfs may allocate.
FtLimit == 99

\* node.number > 99999: the numbers above it are those of agency nodes.
AgencyThreshold == 99999

Range(s) == { s[i] : i \in DOMAIN s }

Min(S) == CHOOSE x \in S : \A y \in S : x <= y

Max(S) == CHOOSE x \in S : \A y \in S : y <= x

SeqsUpTo(S, n) == UNION { [1..k -> S] : k \in 0..n }

(***************************************************************************)
(* Idle values of each group of variables.                                 *)
(***************************************************************************)
ExecuteIdle ==
    /\ pc = "idle"
    /\ parameters = [transit_classes |-> << >>, ttf_definitions |-> << >>,
                     node_logit_scale |-> FALSE, congested_assignment |-> FALSE,
                     surface_transit_speed |-> FALSE]
    /\ environment = [entry |-> "idle", missing_attributes |-> {},
                      functions |-> {}, undeletable |-> {}]
    /\ bank_matrices = {}
    /\ temp_matrix_list = << >>
    /\ created_matrices = {}
    /\ demand_matrix_list = << >>
    /\ impedance_matrix_list = << >>
    /\ scenario_attributes = {}
    /\ temp_attribute_list = << >>
    /\ effective_headway_attribute_list = << >>
    /\ headway_fraction_attribute_list = << >>
    /\ walk_time_perception_attribute_list = << >>
    /\ bank_functions = {}
    /\ created = << >>
    /\ created_functions = {}
    /\ temp_stsu_map = << >>
    /\ open_scopes = << >>
    /\ built_specs = << >>
    /\ solver_calls = << >>
    /\ walk_speed = "orig"
    /\ published = FALSE
    /\ error = "none"
    /\ stages = << >>

HealIdle ==
    /\ functions = << >>
    /\ orig_functions = << >>
    /\ heal_runs = 0
    /\ heal_error = FALSE
    /\ heal_changes = 0

WalkIdle ==
    /\ walk_classes = << >>
    /\ link_attributes = << >>
    /\ walk_done = FALSE

NetIdle ==
    /\ links = {}
    /\ data1 = << >>
    /\ init_data1 = << >>
    /\ visited = {}
    /\ net_pc = "idle"

HeadwayIdle ==
    /\ hdw = << >>
    /\ effective_headway_attribute = << >>
    /\ effective_headway_slope = 0
    /\ headway_pc = "idle"

(***************************************************************************)
(* The run: AssignTransit._execute.                                        *)
(***************************************************************************)
\* Ids of the matrices a user supplies for class i (any id other than mf0).
UserDemandId(i) == 2 * i - 1

UserImpedanceId(i) == 2 * i

\* The modes of the scenario's network, in the order modes() yields them.
NetworkModes ==
    << [id |-> "b", type |-> "TRANSIT"],
       [id |-> "w", type |-> "AUX_TRANSIT"],
       [id |-> "s", type |-> "TRANSIT"] >>

\* One transit class descriptor: the fields of the class the model reads.
TransitClassAt(i) ==
    [ impedance_matrix : {MF0, UserImpedanceId(i)},
      demand_matrix : {MF0, UserDemandId(i)},
      mode : {"*", "b"} ]

TransitClassLists ==
    UNION { { s \in [1..n -> UNION { TransitClassAt(i) : i \in 1..n }] :
                \A i \in 1..n : s[i] \in TransitClassAt(i) } : n \in 1..MaxClasses }

\* ttf["ttf"] of a definition, as the text the parameter document holds.
TtfTexts == {"1", "2", "abc"}

\* int(text): defined on the numerals only, a ValueError otherwise.
IsNumeral(text) == text \in {"1", "2"}

IntOf(text) == CASE text = "1" -> 1 [] text = "2" -> 2

\* The functions the bank holds before the run.
PreExistingFunctions == {2}

UserDemandIds(classes) ==
    { classes[i].demand_matrix : i \in DOMAIN classes } \ {MF0}

\* The two entry points of the tool.
EntryPoints == {"__call__", "run_xtmf"}

\* The parameters that name an extra attribute the scenario must hold: three
\* of each class, two of the run (class 0).
ClassAttributes ==
    {"walk_time_perception_attribute", "segment_fare_attribute",
     "link_fare_attribute_id"}

RunAttributes == {"effective_headway_attribute", "headway_fraction_attribute"}

RequiredAttributesOf(classes) ==
    { << a, i >> : a \in ClassAttributes, i \in DOMAIN classes }
        \cup { << a, 0 >> : a \in RunAttributes }

\* The states a run starts from: a parameter document, an entry point, the
\* required attributes the scenario lacks, the matrices and the functions of
\* the bank, and the functions of the bank whose deletion fails.
ExecuteInitOver(classLists, ttfLists, entries, missingSets, banks, undeletables) ==
    /\ pc = "entry"
    /\ \E classes \in classLists, ttfs \in ttfLists,
          nls \in BOOLEAN, cong \in BOOLEAN, sts \in BOOLEAN :
          parameters = [transit_classes |-> classes, ttf_definitions |-> ttfs,
                        node_logit_scale |-> nls, congested_assignment |-> cong,
                        surface_transit_speed |-> sts]
    /\ \E entry \in entries, missing \in missingSets,
          funcs \in banks, undel \in undeletables :
          environment = [entry |-> entry, missing_attributes |-> missing,
                         functions |-> funcs, undeletable |-> undel]
    /\ bank_matrices \in {UserDemandIds(parameters.transit_classes), {}}
    /\ temp_matrix_list = << >>
    /\ created_matrices = {}
    /\ demand_matrix_list = << >>
    /\ impedance_matrix_list = << >>
    /\ scenario_attributes = {}
    /\ temp_attribute_list = << >>
    /\ effective_headway_attribute_list = << >>
    /\ headway_fraction_attribute_list = << >>
    /\ walk_time_perception_attribute_list = << >>
    /\ bank_functions = environment.functions
    /\ created = << >>
    /\ created_functions = {}
    /\ temp_stsu_map = << >>
    /\ open_scopes = << >>
    /\ built_specs = << >>
    /\ solver_calls = << >>
    /\ walk_speed = "orig"
    /\ published = FALSE
    /\ error = "none"
    /\ stages = << >>

\* Runs of the parameter documents of up to MaxClasses classes and at most
\* one ttf definition through either entry point, on a scenario that holds the
\* required attributes and a bank whose functions can be deleted. Documents of
\* more definitions, and other banks, are the runs of SpecTtf.
ExecuteInit ==
    ExecuteInitOver(TransitClassLists, SeqsUpTo(TtfTexts, 1), EntryPoints,
                    {{}}, {PreExistingFunctions}, {{}})

NumClasses == Len(parameters.transit_classes)

\* _util.initialize_matrix without an id: a new matrix under an id no matrix
\* of the bank and no user id of the run has.
NewMatrixId(bank) == Max(bank \cup {2 * NumClasses}) + 1

\* The raise of an exception inside the with-blocks of _execute.
Raise(e) ==
    /\ error' = e
    /\ pc' = "raising"

\* __call__: the scenario is loaded and _execute is entered; the required
\* attributes are not looked at.
Call ==
    /\ pc = "entry"
    /\ environment.entry = "__call__"
    /\ pc' = "start"
    /\ UNCHANGED << parameters, environment, bank_matrices, temp_matrix_list, created_matrices,
          demand_matrix_list, impedance_matrix_list, scenario_attributes,
          temp_attribute_list, effective_headway_attribute_list,
          headway_fraction_attribute_list, walk_time_perception_attribute_list,
          bank_functions, created, created_functions, temp_stsu_map, open_scopes,
          built_specs, solver_calls, walk_speed, published, error, stages >>

\* _check_attributs_exists: an exception as soon as scenario.extra_attribute
\* of a required attribute is None.
CheckAttributsExists ==
    RequiredAttributesOf(parameters.transit_classes)
        \cap environment.missing_attributes = {}

\* run_xtmf: the scenario is loaded and the required attributes are checked,
\* outside the try; _execute is entered when the check has passed.
RunXtmf ==
    /\ pc = "entry"
    /\ environment.entry = "run_xtmf"
    /\ IF CheckAttributsExists
       THEN /\ pc' = "start"
            /\ error' = error
            /\ stages' = Append(stages, "Validate")
       ELSE /\ pc' = "failed"
            /\ error' = "validation"
            /\ stages' = stages \o << "Validate", "Failed" >>
    /\ UNCHANGED << parameters, environment, bank_matrices, temp_matrix_list, created_matrices,
          demand_matrix_list, impedance_matrix_list, scenario_attributes,
          temp_attribute_list, effective_headway_attribute_list,
          headway_fraction_attribute_list, walk_time_perception_attribute_list,
          bank_functions, created, created_functions, temp_stsu_map, open_scopes,
          built_specs, solver_calls, walk_speed, published >>

\* _load_input_matrices and _load_output_matrices: a user's demand matrix
\* that the bank does not hold is an error; nothing is created.
LoadMatrices ==
    /\ pc = "start"
    /\ stages' = Append(stages, "Load")
    /\ IF UserDemandIds(parameters.transit_classes) \subseteq bank_matrices
       THEN /\ pc' = "heal"
            /\ error' = error
       ELSE /\ pc' = "failed"
            /\ error' = "matrix_not_found"
    /\ UNCHANGED << parameters, environment, bank_matrices, temp_matrix_list, created_matrices,
          demand_matrix_list, impedance_matrix_list, scenario_attributes,
          temp_attribute_list, effective_headway_attribute_list,
          headway_fraction_attribute_list, walk_time_perception_attribute_list,
          bank_functions, created, created_functions, temp_stsu_map, open_scopes,
          built_specs, solver_calls, walk_speed, published >>

\* The call of _heal_travel_time_functions in _execute; the healer itself is
\* the subject of SpecHeal, here it succeeds or raises the conflict.
HealStage ==
    /\ pc = "heal"
    /\ stages' = Append(stages, "Heal")
    /\ \E conflict \in BOOLEAN :
          IF conflict
          THEN /\ pc' = "failed"
               /\ error' = "us3_conflict"
          ELSE /\ pc' = "input_matrices"
               /\ error' = error
    /\ UNCHANGED << parameters, environment, bank_matrices, temp_matrix_list, created_matrices,
          demand_matrix_list, impedance_matrix_list, scenario_attributes,
          temp_attribute_list, effective_headway_attribute_list,
          headway_fraction_attribute_list, walk_time_perception_attribute_list,
          bank_functions, created, created_functions, temp_stsu_map, open_scopes,
          built_specs, solver_calls, walk_speed, published >>

\* _init_input_matrices from class k on: a class without a demand matrix gets
\* a new matrix, which is registered as temporary.
RECURSIVE InitInput(_, _, _, _)
InitInput(k, bank, temps, list) ==
    IF k > NumClasses
    THEN [bank |-> bank, temps |-> temps, list |-> list]
    ELSE IF parameters.transit_classes[k].demand_matrix = MF0
         THEN LET id == NewMatrixId(bank)
              IN  InitInput(k + 1, bank \cup {id}, Append(temps, id), Append(list, id))
         ELSE InitInput(k + 1, bank, temps,
                        Append(list, parameters.transit_classes[k].demand_matrix))

\* with temporary_matrix_manager() ...: _init_input_matrices. The six calls
\* of _init_output_matrices that follow register no temporary (matrix_name is
\* never "impedance_matrix") and are not part of the model's state.
InitInputMatrices ==
    /\ pc = "input_matrices"
    /\ stages' = Append(stages, "AcquireResources")
    /\ open_scopes' = Append(open_scopes, "matrix")
    /\ LET r == InitInput(1, bank_matrices, << >>, << >>)
       IN  /\ bank_matrices' = r.bank
           /\ temp_matrix_list' = r.temps
           /\ demand_matrix_list' = r.list
           /\ created_matrices' = Range(r.temps)
    /\ pc' = "impedance_matrices"
    /\ UNCHANGED << parameters, environment, impedance_matrix_list, scenario_attributes,
          temp_attribute_list, effective_headway_attribute_list,
          headway_fraction_attribute_list, walk_time_perception_attribute_list,
          bank_functions, created, created_functions, temp_stsu_map,
          built_specs, solver_calls, walk_speed, published, error >>

\* _get_impedance_matrices from class k on. `matrix` is the local variable of
\* that name: << >> while unbound, << id >> once the else branch has bound it.
\* The branch for a user's id initialises that matrix and then appends
\* `matrix`, which it never assigns: an UnboundLocalError while unbound, the
\* temporary of an earlier class otherwise.
RECURSIVE GetImpedance(_, _, _, _, _)
GetImpedance(k, bank, temps, list, matrix) ==
    IF k > NumClasses
    THEN [bank |-> bank, temps |-> temps, list |-> list, raised |-> FALSE]
    ELSE LET matrix_id == parameters.transit_classes[k].impedance_matrix
         IN  IF matrix_id # MF0
             THEN IF matrix = << >>
                  THEN [bank |-> bank \cup {matrix_id}, temps |-> temps,
                        list |-> list, raised |-> TRUE]
                  ELSE GetImpedance(k + 1, bank \cup {matrix_id}, temps,
                                    Append(list, matrix[1]), matrix)
             ELSE LET id == NewMatrixId(bank)
                  IN  GetImpedance(k + 1, bank \cup {id}, Append(temps, id),
                                   Append(list, id), << id >>)

GetImpedanceMatrices ==
    /\ pc = "impedance_matrices"
    /\ LET r == GetImpedance(1, bank_matrices, temp_matrix_list, << >>, << >>)
       IN  /\ bank_matrices' = r.bank
           /\ temp_matrix_list' = r.temps
           /\ created_matrices' = Range(r.temps)
           /\ IF r.raised
              THEN /\ Raise("unbound_local")
                   /\ impedance_matrix_list' = impedance_matrix_list
              ELSE /\ impedance_matrix_list' = r.list
                   /\ pc' = "walk_speed"
                   /\ error' = error
    /\ UNCHANGED << parameters, environment, demand_matrix_list, scenario_attributes,
          temp_attribute_list, effective_headway_attribute_list,
          headway_fraction_attribute_list, walk_time_perception_attribute_list,
          bank_functions, created, created_functions, temp_stsu_map, open_scopes,
          built_specs, solver_calls, walk_speed, published, stages >>

\* _change_walk_speed: the speed of every AUX_TRANSIT mode is set.
ChangeWalkSpeed ==
    /\ pc = "walk_speed"
    /\ walk_speed' = "set"
    /\ pc' = "attributes"
    /\ UNCHANGED << parameters, environment, bank_matrices, temp_matrix_list, created_matrices,
          demand_matrix_list, impedance_matrix_list, scenario_attributes,
          temp_attribute_list, effective_headway_attribute_list,
          headway_fraction_attribute_list, walk_time_perception_attribute_list,
          bank_functions, created, created_functions, temp_stsu_map, open_scopes,
          built_specs, solver_calls, published, error, stages >>

\* The temporary extra attributes of the run, by what they are for.
HeadwayAttribute == << "effective_headway", 0 >>

FractionAttribute == << "headway_fraction", 0 >>

WalkAttribute(i) == << "walk_time_perception", i >>

StsuAttribute == << "stsu", 0 >>

\* _create_headway_attribute_list: ONE attribute is created, and the list
\* returned holds that one attribute whatever the number of classes.
CreateHeadwayAttributeList(att) == << att >>

\* _create_walk_time_perception_attribute_list: one attribute per class.
CreateWalkTimePerceptionAttributeList == [ i \in 1..NumClasses |-> WalkAttribute(i) ]

\* with temporary_attribute_manager(scenario) ...: the three lists of
\* temporary attributes are created and registered.
CreateAttributes ==
    /\ pc = "attributes"
    /\ open_scopes' = Append(open_scopes, "attribute")
    /\ effective_headway_attribute_list' = CreateHeadwayAttributeList(HeadwayAttribute)
    /\ headway_fraction_attribute_list' = CreateHeadwayAttributeList(FractionAttribute)
    /\ walk_time_perception_attribute_list' = CreateWalkTimePerceptionAttributeList
    /\ temp_attribute_list' =
          effective_headway_attribute_list' \o headway_fraction_attribute_list'
             \o walk_time_perception_attribute_list'
    /\ scenario_attributes' = scenario_attributes \cup Range(temp_attribute_list')
    /\ pc' = "compute"
    /\ UNCHANGED << parameters, environment, bank_matrices, temp_matrix_list, created_matrices,
          demand_matrix_list, impedance_matrix_list,
          bank_functions, created, created_functions, temp_stsu_map,
          built_specs, solver_calls, walk_speed, published, error, stages >>

\* _assign_effective_headway and _assign_walk_perception: network
\* calculations, any of which may fail. What they compute is the subject of
\* SpecWalk.
ComputeAttributes ==
    /\ pc = "compute"
    /\ stages' = Append(stages, "ComputeAttributes")
    /\ \E fails \in BOOLEAN :
          IF fails
          THEN Raise("network_calculation")
          ELSE /\ pc' = IF parameters.node_logit_scale THEN "publish" ELSE "stsu_att"
               /\ error' = error
    /\ UNCHANGED << parameters, environment, bank_matrices, temp_matrix_list, created_matrices,
          demand_matrix_list, impedance_matrix_list, scenario_attributes,
          temp_attribute_list, effective_headway_attribute_list,
          headway_fraction_attribute_list, walk_time_perception_attribute_list,
          bank_functions, created, created_functions, temp_stsu_map, open_scopes,
          built_specs, solver_calls, walk_speed, published >>

\* if parameters["node_logit_scale"] is not False:
\*     _publish_efficient_connector_network. The mutation itself is the
\* subject of SpecNet.
PublishNetwork ==
    /\ pc = "publish"
    /\ stages' = Append(stages, "MutateChoiceNetwork")
    /\ published' = TRUE
    /\ pc' = "stsu_att"
    /\ UNCHANGED << parameters, environment, bank_matrices, temp_matrix_list, created_matrices,
          demand_matrix_list, impedance_matrix_list, scenario_attributes,
          temp_attribute_list, effective_headway_attribute_list,
          headway_fraction_attribute_list, walk_time_perception_attribute_list,
          bank_functions, created, created_functions, temp_stsu_map, open_scopes,
          built_specs, solver_calls, walk_speed, error >>

\* with _util.temp_extra_attribute_manager(scenario, "TRANSIT_LINE") as stsu_att
CreateStsuAtt ==
    /\ pc = "stsu_att"
    /\ open_scopes' = Append(open_scopes, "stsu_att")
    /\ scenario_attributes' = scenario_attributes \cup {StsuAttribute}
    /\ pc' = "ttfs"
    /\ UNCHANGED << parameters, environment, bank_matrices, temp_matrix_list, created_matrices,
          demand_matrix_list, impedance_matrix_list,
          temp_attribute_list, effective_headway_attribute_list,
          headway_fraction_attribute_list, walk_time_perception_attribute_list,
          bank_functions, created, created_functions, temp_stsu_map,
          built_specs, solver_calls, walk_speed, published, error, stages >>

\* _temp_stsu_ttfs before its try: for definition k on, the first i of
\* 1..99 with no function ft<i> is taken, the function is created, the pair
\* int(ttf) -> i is recorded and only then created[func] is set. int() of a
\* text that is no numeral raises between create_function and created[func].
\* `made` collects what create_function has made, recorded or not.
RECURSIVE AllocTtfs(_, _, _, _, _)
AllocTtfs(k, funcs, crt, map, made) ==
    IF k > Len(parameters.ttf_definitions)
    THEN [funcs |-> funcs, created |-> crt, map |-> map, made |-> made,
          raised |-> FALSE]
    ELSE LET free == { i \in 1..FtLimit : i \notin funcs }
         IN  IF free = {}
             THEN AllocTtfs(k + 1, funcs, crt, map, made)
             ELSE LET i == Min(free)
                      ttf == parameters.ttf_definitions[k]
                  IN  IF ~IsNumeral(ttf)
                      THEN [funcs |-> funcs \cup {i}, created |-> crt, map |-> map,
                            made |-> made \cup {i}, raised |-> TRUE]
                      ELSE AllocTtfs(k + 1, funcs \cup {i}, Append(crt, i),
                              [ x \in DOMAIN map \cup {IntOf(ttf)} |->
                                  IF x = IntOf(ttf) THEN i ELSE map[x] ],
                              made \cup {i})

\* with self._temp_stsu_ttfs(scenario, parameters) as ttf_map: the scope is
\* entered only when the allocation loop has run to its end; an exception in
\* the loop is raised before the try whose finally deletes the functions.
TempStsuTtfs ==
    /\ pc = "ttfs"
    /\ stages' = Append(stages, "RemapTTFs")
    /\ LET r == AllocTtfs(1, bank_functions, << >>, << >>, {})
       IN  /\ bank_functions' = r.funcs
           /\ created' = r.created
           /\ temp_stsu_map' = r.map
           /\ created_functions' = r.made
           /\ IF r.raised
              THEN /\ Raise("value_error")
                   /\ open_scopes' = open_scopes
              ELSE /\ open_scopes' = Append(open_scopes, "ttfs")
                   /\ pc' = "assign"
                   /\ error' = error
    /\ UNCHANGED << parameters, environment, bank_matrices, temp_matrix_list, created_matrices,
          demand_matrix_list, impedance_matrix_list, scenario_attributes,
          temp_attribute_list, effective_headway_attribute_list,
          headway_fraction_attribute_list, walk_time_perception_attribute_list,
          built_specs, solver_calls, walk_speed, published >>

\* _run_transit_assignment and the test at the head of
\* _run_uncongested_assignment: the per-class loop runs for an uncongested
\* assignment without surface transit speed; the other branches are `pass`.
RunTransitAssignment ==
    /\ pc = "assign"
    /\ stages' = Append(stages, "AssignPerClass")
    /\ pc' = IF parameters.congested_assignment = TRUE
             THEN "exiting"
             ELSE IF parameters.surface_transit_speed = FALSE
                  THEN "classes"
                  ELSE "exiting"
    /\ UNCHANGED << parameters, environment, bank_matrices, temp_matrix_list, created_matrices,
          demand_matrix_list, impedance_matrix_list, scenario_attributes,
          temp_attribute_list, effective_headway_attribute_list,
          headway_fraction_attribute_list, walk_time_perception_attribute_list,
          bank_functions, created, created_functions, temp_stsu_map, open_scopes,
          built_specs, solver_calls, walk_speed, published, error >>

\* As ModeList with every rule leading back to the first journey level.
ModeListToWalking(modes) ==
    IF modes = << "*" >>
    THEN LET transit == SelectSeq(NetworkModes, LAMBDA m : m.type = "TRANSIT")
         IN  [ j \in 1..Len(transit) |->
                 [mode |-> transit[j].id, next_journey_level |-> 0] ]
    ELSE << >>

\* The transition rules of _get_base_assignment_spec_uncongested: mode_list is
\* filled from the network's TRANSIT modes when modes == ["*"], and is left
\* empty otherwise.
ModeList(modes) ==
    IF modes = << "*" >>
    THEN LET transit == SelectSeq(NetworkModes, LAMBDA m : m.type = "TRANSIT")
         IN  [ j \in 1..Len(transit) |->
                 [mode |-> transit[j].id, next_journey_level |-> 1] ]
    ELSE << >>

\* _get_base_assignment_spec_uncongested, the fields the claims read.
GetBaseAssignmentSpecUncongested(demand_matrix, effective_headway, headway_fraction, impedance_matrix, modes, walk_attribute) ==
    [ modes |-> modes,
      demand |-> demand_matrix,
      headway_fraction |-> headway_fraction,
      effective_headways |-> effective_headway,
      aux_transit_time |-> walk_attribute,
      total_impedance |-> impedance_matrix,
      journey_levels |->
          << [description |-> "Walking", transition_rules |-> ModeList(modes)],
             [description |-> "Transit", transition_rules |-> ModeList(modes)] >> ]

\* As AddVolumes with the comparison turned round: only the first class adds.
AddVolumesWrong(i) == i = 0

\* add_volumes=(i != 0), i the 0-based index of the class.
AddVolumes(i) == i # 0

\* One turn of the loop of _run_uncongested_assignment, for the class at
\* 0-based index i: the arguments are evaluated (the headway lists are indexed
\* by i), the specification is built and the solver is run.
AssignClass ==
    /\ pc = "classes"
    /\ LET i == Len(solver_calls)
           tc == parameters.transit_classes[i + 1]
       IN  IF i + 1 > Len(effective_headway_attribute_list)
              \/ i + 1 > Len(headway_fraction_attribute_list)
           THEN /\ Raise("index_error")
                /\ UNCHANGED << built_specs, solver_calls >>
           ELSE /\ built_specs' = Append(built_specs,
                     GetBaseAssignmentSpecUncongested(
                         demand_matrix_list[i + 1],
                         effective_headway_attribute_list[i + 1],
                         headway_fraction_attribute_list[i + 1],
                         impedance_matrix_list[i + 1],
                         << tc.mode >>,
                         walk_time_perception_attribute_list[i + 1]))
                /\ \E fails \in BOOLEAN :
                      /\ solver_calls' = Append(solver_calls,
                            [class |-> i + 1, add_volumes |-> AddVolumes(i),
                             failed |-> fails])
                      /\ IF fails
                         THEN Raise("solver")
                         ELSE /\ pc' = IF i + 1 = NumClasses THEN "exiting"
                                       ELSE "classes"
                              /\ error' = error
    /\ UNCHANGED << parameters, environment, bank_matrices, temp_matrix_list, created_matrices,
          demand_matrix_list, impedance_matrix_list, scenario_attributes,
          temp_attribute_list, effective_headway_attribute_list,
          headway_fraction_attribute_list, walk_time_perception_attribute_list,
          bank_functions, created, created_functions, temp_stsu_map, open_scopes,
          walk_speed, published, stages >>

\* The innermost open with-block.
InnermostScope == open_scopes[Len(open_scopes)]

\* The stages with the release of resources entered once.
Releasing ==
    IF stages # << >> /\ stages[Len(stages)] = "ReleaseResources"
    THEN stages
    ELSE Append(stages, "ReleaseResources")

\* The positions of `created` whose function delete_function cannot delete.
FailingDeletes == { k \in DOMAIN created : created[k] \in environment.undeletable }

\* The finally of _temp_stsu_ttfs, on the normal path and on the path of an
\* exception alike: the functions recorded in `created` are deleted in the
\* order of their creation; ttfs_changed is never set, so nothing else is
\* restored. An exception of delete_function leaves the loop and the finally:
\* it is the exception the with-block raises, and the functions after the one
\* that failed are not deleted.
ExitTempStsuTtfs ==
    /\ pc \in {"exiting", "raising"}
    /\ open_scopes # << >>
    /\ InnermostScope = "ttfs"
    /\ IF FailingDeletes = {}
       THEN /\ bank_functions' = bank_functions \ Range(created)
            /\ UNCHANGED << pc, error >>
       ELSE /\ bank_functions' =
                  bank_functions \ { created[j] : j \in 1..(Min(FailingDeletes) - 1) }
            /\ Raise("delete_function")
    /\ open_scopes' = SubSeq(open_scopes, 1, Len(open_scopes) - 1)
    /\ stages' = Releasing
    /\ UNCHANGED << parameters, environment, bank_matrices, temp_matrix_list,
          created_matrices, demand_matrix_list, impedance_matrix_list,
          scenario_attributes, temp_attribute_list,
          effective_headway_attribute_list, headway_fraction_attribute_list,
          walk_time_perception_attribute_list, created, created_functions,
          temp_stsu_map, built_specs, solver_calls, walk_speed, published >>

\* The exit of a manager of the utilities (temp_extra_attribute_manager,
\* temporary_attribute_manager, temporary_matrix_manager), on either path:
\* what was registered with the manager is deleted.
ExitManager ==
    /\ pc \in {"exiting", "raising"}
    /\ open_scopes # << >>
    /\ InnermostScope # "ttfs"
    /\ scenario_attributes' =
          IF InnermostScope = "stsu_att"
          THEN scenario_attributes \ {StsuAttribute}
          ELSE IF InnermostScope = "attribute"
               THEN scenario_attributes \ Range(temp_attribute_list)
               ELSE scenario_attributes
    /\ bank_matrices' =
          IF InnermostScope = "matrix"
          THEN bank_matrices \ Range(temp_matrix_list)
          ELSE bank_matrices
    /\ open_scopes' = SubSeq(open_scopes, 1, Len(open_scopes) - 1)
    /\ stages' = Releasing
    /\ UNCHANGED << pc, parameters, environment, temp_matrix_list, created_matrices,
          demand_matrix_list, impedance_matrix_list, temp_attribute_list,
          effective_headway_attribute_list, headway_fraction_attribute_list,
          walk_time_perception_attribute_list, bank_functions, created,
          created_functions, temp_stsu_map, built_specs, solver_calls,
          walk_speed, published, error >>

\* _execute returns, or its exception reaches __call__ / run_xtmf, which
\* raises it on to the caller.
Finish ==
    /\ pc \in {"exiting", "raising"}
    /\ open_scopes = << >>
    /\ pc' = IF pc = "exiting" THEN "completed" ELSE "failed"
    /\ stages' = Append(stages, IF pc = "exiting" THEN "Completed" ELSE "Failed")
    /\ UNCHANGED << parameters, environment, bank_matrices, temp_matrix_list, created_matrices,
          demand_matrix_list, impedance_matrix_list, scenario_attributes,
          temp_attribute_list, effective_headway_attribute_list,
          headway_fraction_attribute_list, walk_time_perception_attribute_list,
          bank_functions, created, created_functions, temp_stsu_map, open_scopes,
          built_specs, solver_calls, walk_speed, published, error >>

Init == ExecuteInit /\ HealIdle /\ WalkIdle /\ NetIdle /\ HeadwayIdle

ExecuteOnly == UNCHANGED << heal_vars, walk_vars, net_vars, headway_vars >>

Next ==
    \/ Call /\ ExecuteOnly
    \/ RunXtmf /\ ExecuteOnly
    \/ LoadMatrices /\ ExecuteOnly
    \/ HealStage /\ ExecuteOnly
    \/ InitInputMatrices /\ ExecuteOnly
    \/ GetImpedanceMatrices /\ ExecuteOnly
    \/ ChangeWalkSpeed /\ ExecuteOnly
    \/ CreateAttributes /\ ExecuteOnly
    \/ ComputeAttributes /\ ExecuteOnly
    \/ PublishNetwork /\ ExecuteOnly
    \/ CreateStsuAtt /\ ExecuteOnly
    \/ TempStsuTtfs /\ ExecuteOnly
    \/ RunTransitAssignment /\ ExecuteOnly
    \/ AssignClass /\ ExecuteOnly
    \/ ExitTempStsuTtfs /\ ExecuteOnly
    \/ ExitManager /\ ExecuteOnly
    \/ Finish /\ ExecuteOnly

Spec == Init /\ [][Next]_vars

\* The parameter documents of one class that supplies no matrix.
OneClassLists ==
    { << [impedance_matrix |-> MF0, demand_matrix |-> MF0, mode |-> m] >> :
        m \in {"*", "b"} }

\* A scenario that lacks none, or any one, of the required attributes.
MissingSets ==
    {{}} \cup { {a} : a \in UNION { RequiredAttributesOf(c) : c \in OneClassLists } }

\* The runs of a one-class document on a scenario that may lack a required
\* attribute.
InitEntry ==
    /\ ExecuteInitOver(OneClassLists, SeqsUpTo(TtfTexts, MaxTtfs), EntryPoints,
                       MissingSets, {PreExistingFunctions}, {{}})
    /\ HealIdle /\ WalkIdle /\ NetIdle /\ HeadwayIdle

SpecEntry == InitEntry /\ [][Next]_vars

\* Banks of functions: the usual one, an empty one, one in which every id of
\* ft1 .. ft99 is taken, and one in which ft99 alone is free.
FunctionBanks == {PreExistingFunctions, {}, 1..FtLimit, 1..(FtLimit - 1)}

\* The functions that cannot be deleted, among the first the run may create.
UndeletableSets == SUBSET {1, 3}

\* The runs of a one-class document on any of the banks.
InitTtf ==
    /\ ExecuteInitOver(OneClassLists, SeqsUpTo(TtfTexts, MaxTtfs), EntryPoints,
                       {{}}, FunctionBanks, UndeletableSets)
    /\ HealIdle /\ WalkIdle /\ NetIdle /\ HeadwayIdle

SpecTtf == InitTtf /\ [][Next]_vars

(***************************************************************************)
(* Claims about the run.                                                   *)
(***************************************************************************)
\* Temporaries of the run that still exist.
LeakedMatrices == created_matrices \cap bank_matrices

LeakedFunctions == created_functions \cap bank_functions

\* C1: when the error of a failed run reaches the caller, every temporary
\* matrix, temporary attribute and temporary time function created before the
\* failure has been released.
C1_TemporariesReleasedOnFailure ==
    pc = "failed" =>
        /\ LeakedMatrices = {}
        /\ scenario_attributes = {}
        /\ LeakedFunctions = {}

\* The per-class loop of _run_uncongested_assignment has been entered.
ReachedAssignment ==
    /\ "AssignPerClass" \in Range(stages)
    /\ parameters.congested_assignment = FALSE
    /\ parameters.surface_transit_speed = FALSE

NoSolverFailure == \A j \in DOMAIN solver_calls : ~solver_calls[j].failed

\* C2: a run that reaches the assignment stage and in which no solver call
\* fails has, when it ends, built a specification and invoked the solver
\* exactly once for each class, in declared order.
C2_EveryClassAssignedInOrder ==
    (pc \in {"completed", "failed"} /\ ReachedAssignment /\ NoSolverFailure) =>
        /\ Len(built_specs) = NumClasses
        /\ Len(solver_calls) = NumClasses
        /\ \A j \in DOMAIN solver_calls : solver_calls[j].class = j

TransitModeIds ==
    { NetworkModes[j].id : j \in { x \in DOMAIN NetworkModes :
                                      NetworkModes[x].type = "TRANSIT" } }

RuleModes(rules) == { rules[j].mode : j \in DOMAIN rules }

\* C7: the transition table of each journey level of a built specification
\* has one rule per transit mode of the network for a wildcard class, and one
\* rule per mode of the class's explicit mode list otherwise.
C7_TransitionRulePerMode ==
    \A j \in DOMAIN built_specs :
        \A level \in DOMAIN built_specs[j].journey_levels :
            LET rules == built_specs[j].journey_levels[level].transition_rules
                mode == parameters.transit_classes[j].mode
                wanted == IF mode = "*" THEN TransitModeIds ELSE {mode}
            IN  /\ RuleModes(rules) = wanted
                /\ Len(rules) = Cardinality(wanted)

\* C8: once _get_impedance_matrices has returned its list, position i holds
\* class i's own matrix: the user's matrix when an id was supplied (never
\* registered as temporary), a new registered temporary otherwise; no two
\* classes share a matrix.
C8_OwnImpedanceMatrix ==
    impedance_matrix_list # << >> =>
        /\ Len(impedance_matrix_list) = NumClasses
        /\ \A i \in 1..NumClasses :
              LET matrix_id == parameters.transit_classes[i].impedance_matrix
              IN  IF matrix_id # MF0
                  THEN /\ impedance_matrix_list[i] = matrix_id
                       /\ matrix_id \notin Range(temp_matrix_list)
                  ELSE /\ impedance_matrix_list[i] \in Range(temp_matrix_list)
                       /\ impedance_matrix_list[i] \in created_matrices
        /\ \A i, j \in 1..NumClasses :
              i # j => impedance_matrix_list[i] # impedance_matrix_list[j]

\* The scenario lacks an attribute the parameters of the run require.
MissingRequired ==
    RequiredAttributesOf(parameters.transit_classes)
        \cap environment.missing_attributes # {}

\* C11: through either entry point, a run on a scenario that lacks a required
\* attribute creates no matrix, no attribute and no function, leaves the walk
\* speed alone and never calls the solver, and ends failed with the
\* validation error.
C11_MissingAttributeFailsBeforeMutation ==
    MissingRequired =>
        /\ created_matrices = {}
        /\ scenario_attributes = {}
        /\ created_functions = {}
        /\ walk_speed = "orig"
        /\ solver_calls = << >>
        /\ pc \in {"completed", "failed"} => (pc = "failed" /\ error = "validation")

\* The run is inside the with-block of _temp_stsu_ttfs.
InTtfScope == "ttfs" \in Range(open_scopes)

\* C13: while the scope of _temp_stsu_ttfs is open, every declared definition
\* has an entry in the mapping, from its id to the id of a function that the
\* bank did not hold before the run and holds now, and no two ids of the
\* mapping have the same image; whatever functions the bank held.
C13_EveryDefinitionMapped ==
    InTtfScope =>
        /\ \A k \in DOMAIN parameters.ttf_definitions :
              LET ttf == parameters.ttf_definitions[k]
              IN  IsNumeral(ttf) =>
                      /\ IntOf(ttf) \in DOMAIN temp_stsu_map
                      /\ temp_stsu_map[IntOf(ttf)] \notin environment.functions
                      /\ temp_stsu_map[IntOf(ttf)] \in bank_functions
        /\ \A x, y \in DOMAIN temp_stsu_map :
              x # y => temp_stsu_map[x] # temp_stsu_map[y]

\* C14: when the scope of _temp_stsu_ttfs is left on an exception E of its
\* body and a deletion of a created function fails, the exception that goes on
\* is E and every created function whose deletion does not fail is deleted.
C14_BodyErrorSurvivesFailedDelete ==
    [][ ( /\ pc = "raising"
          /\ open_scopes # << >>
          /\ InnermostScope = "ttfs"
          /\ Range(created) \cap environment.undeletable # {}
          /\ open_scopes' # open_scopes )
        => ( /\ error' = error
             /\ (bank_functions' \cap Range(created)) \subseteq environment.undeletable )
      ]_vars

\* The journey levels as the solver reads them: a traveller at the level of
\* 0-based index `level` may board the modes of that level's rules, and a
\* boarding takes the traveller to the rule's next_journey_level.
PermittedModes(journey_levels, level) ==
    IF level + 1 \in DOMAIN journey_levels
    THEN RuleModes(journey_levels[level + 1].transition_rules)
    ELSE {}

NextLevel(journey_levels, level, mode) ==
    LET rules == journey_levels[level + 1].transition_rules
        j == CHOOSE x \in DOMAIN rules : rules[x].mode = mode
    IN  rules[j].next_journey_level

\* The level of a traveller who starts at level 0 and makes the boardings in
\* turn; -1 when one of them is of a mode the level does not permit.
RECURSIVE LevelAfter(_, _)
LevelAfter(journey_levels, boardings) ==
    IF boardings = << >>
    THEN 0
    ELSE LET before == LevelAfter(journey_levels,
                                  SubSeq(boardings, 1, Len(boardings) - 1))
             mode == boardings[Len(boardings)]
         IN  IF before = -1 \/ mode \notin PermittedModes(journey_levels, before)
             THEN -1
             ELSE NextLevel(journey_levels, before, mode)

BoardingPaths == SeqsUpTo(TransitModeIds, MaxBoardings) \ {<< >>}

\* C15: every built specification has exactly two journey levels, "Walking"
\* at index 0 and "Transit" at index 1, every transition rule of both has
\* next_journey_level 1, and a traveller who starts at level 0 is at level 1
\* after the first boarding and after every later one.
C15_TwoLevelsAllRulesToTransit ==
    \A j \in DOMAIN built_specs :
        LET journey_levels == built_specs[j].journey_levels
        IN  /\ Len(journey_levels) = 2
            /\ journey_levels[1].description = "Walking"
            /\ journey_levels[2].description = "Transit"
            /\ \A level \in DOMAIN journey_levels :
                  \A r \in DOMAIN journey_levels[level].transition_rules :
                      journey_levels[level].transition_rules[r].next_journey_level = 1
            /\ \A boardings \in BoardingPaths :
                  LevelAfter(journey_levels, boardings) \in {-1, 1}

\* A specification has been built whose levels permit a path of two boardings.
C15_Witness ==
    \E j \in DOMAIN built_specs :
        \E boardings \in BoardingPaths :
            /\ Len(boardings) = 2
            /\ LevelAfter(built_specs[j].journey_levels, boardings) = 1

\* The stages of the pipeline that lead to the solver, in the claimed order;
\* MutateChoiceNetwork is one of them exactly when node_logit_scale is set.
ForwardStages ==
    IF parameters.node_logit_scale
    THEN << "Validate", "Heal", "AcquireResources", "ComputeAttributes",
            "MutateChoiceNetwork", "RemapTTFs", "AssignPerClass" >>
    ELSE << "Validate", "Heal", "AcquireResources", "ComputeAttributes",
            "RemapTTFs", "AssignPerClass" >>

\* The stages of `stages` that are forward stages, in the order of the run.
ForwardOfRun == SelectSeq(stages, LAMBDA st : st \in Range(ForwardStages))

\* The stages that close a run.
ClosingStages == {"ReleaseResources", "Completed", "Failed"}

\* C16: the forward stages a run has been through are the first ones of
\* Validate, Heal, AcquireResources, ComputeAttributes, MutateChoiceNetwork
\* (exactly when node_logit_scale is set), RemapTTFs, AssignPerClass, each
\* once and in that order; ReleaseResources and the end of the run come after
\* them; the solver is invoked only after Heal, ComputeAttributes and, when
\* enabled, the publication of the choice network; and a run that has ended
\* has no scope open.
C16_StagesInOrder ==
    /\ Len(ForwardOfRun) <= Len(ForwardStages)
    /\ \A i \in DOMAIN ForwardOfRun : ForwardOfRun[i] = ForwardStages[i]
    /\ "MutateChoiceNetwork" \in Range(stages) => parameters.node_logit_scale
    /\ \A i, j \in DOMAIN stages :
          (i < j /\ stages[i] \in ClosingStages) => stages[j] \in ClosingStages
    /\ solver_calls # << >> =>
          /\ {"Heal", "ComputeAttributes"} \subseteq Range(stages)
          /\ parameters.node_logit_scale => published
    /\ pc \in {"completed", "failed"} => open_scopes = << >>

(***************************************************************************)
(* _heal_travel_time_functions.                                            *)
(*                                                                         *)
(* An expression is the sequence of its lexical pieces. The pieces are     *)
(* chosen so that a match of "us3" or of "*(1+us3)" in the text is a match *)
(* of the pieces: "x" stands for any term without the letters of us3.      *)
(***************************************************************************)
Pieces == {" ", "x", "*(1+", "us3", ")"}

\* The text "*(1+us3)".
CongestionSuffix == << "*(1+", "us3", ")" >>

FunctionTypes == {"TRANSIT_TIME", "VOLUME_DELAY"}

\* expression.replace(" ", "")
RemoveSpaces(e) == SelectSeq(e, LAMBDA p : p # " ")

\* part in e, for a text part given by its pieces
Contains(e, part) ==
    \E i \in 1..(Len(e) - Len(part) + 1) : SubSeq(e, i, i + Len(part) - 1) = part

\* e.endswith(part)
EndsWith(e, part) ==
    /\ Len(e) >= Len(part)
    /\ SubSeq(e, Len(e) - Len(part) + 1, Len(e)) = part

\* e.find(part), as the number of pieces before the FIRST match
Find(e, part) ==
    Min({ i \in 1..(Len(e) - Len(part) + 1) :
             SubSeq(e, i, i + Len(part) - 1) = part }) - 1

\* The body of the loop for one function: [expression, healed, raised].
HealOne(function) ==
    LET cleaned_expression == RemoveSpaces(function.expression)
    IN  IF function.type # "TRANSIT_TIME"
        THEN [expression |-> function.expression, healed |-> FALSE, raised |-> FALSE]
        ELSE IF Contains(cleaned_expression, << "us3" >>)
             THEN IF EndsWith(cleaned_expression, CongestionSuffix)
                  THEN LET index == Find(cleaned_expression, CongestionSuffix)
                       IN  [expression |-> SubSeq(cleaned_expression, 1, index),
                            healed |-> TRUE, raised |-> FALSE]
                  ELSE [expression |-> function.expression, healed |-> FALSE,
                        raised |-> TRUE]
             ELSE [expression |-> function.expression, healed |-> FALSE,
                   raised |-> FALSE]

\* The loop over _bank.functions() from function k on; a raise leaves the
\* functions healed before it healed.
RECURSIVE HealFrom(_, _, _)
HealFrom(k, fs, changes) ==
    IF k > Len(fs)
    THEN [functions |-> fs, changes |-> changes, raised |-> FALSE]
    ELSE LET r == HealOne(fs[k])
         IN  IF r.raised
             THEN [functions |-> fs, changes |-> changes, raised |-> TRUE]
             ELSE HealFrom(k + 1, [fs EXCEPT ![k].expression = r.expression],
                           IF r.healed THEN changes + 1 ELSE changes)

\* The functions a bank may hold after the first one.
SecondFunctions ==
    { [type |-> "TRANSIT_TIME", expression |-> << "x" >>],
      [type |-> "TRANSIT_TIME", expression |-> << "x", "*(1+", "us3", ")" >>],
      [type |-> "TRANSIT_TIME", expression |-> << "us3" >>] }

HealInit ==
    /\ \E t \in FunctionTypes, e \in SeqsUpTo(Pieces, MaxExprLen) :
          \/ functions = << [type |-> t, expression |-> e] >>
          \/ \E g \in SecondFunctions :
                functions = << [type |-> t, expression |-> e], g >>
    /\ orig_functions = functions
    /\ heal_runs = 0
    /\ heal_error = FALSE
    /\ heal_changes = 0

\* One call of _heal_travel_time_functions.
HealTravelTimeFunctions ==
    /\ heal_runs < MaxHealRuns
    /\ LET r == HealFrom(1, functions, 0)
       IN  /\ functions' = r.functions
           /\ heal_error' = r.raised
           /\ heal_changes' = IF r.raised THEN heal_changes ELSE r.changes
    /\ heal_runs' = heal_runs + 1
    /\ UNCHANGED orig_functions

InitHeal == ExecuteIdle /\ HealInit /\ WalkIdle /\ NetIdle /\ HeadwayIdle

NextHeal ==
    \/ HealTravelTimeFunctions /\ UNCHANGED << execute_vars, walk_vars, net_vars, headway_vars >>

SpecHeal == InitHeal /\ [][NextHeal]_vars

(***************************************************************************)
(* Claims about the healer.                                                *)
(***************************************************************************)
UsesUs3(function) ==
    /\ function.type = "TRANSIT_TIME"
    /\ Contains(RemoveSpaces(function.expression), << "us3" >>)

\* Every function of the bank other than function k is free of us3.
OthersClean(k) == \A j \in DOMAIN orig_functions : j # k => ~UsesUs3(orig_functions[j])

\* e without its last Len(part) pieces
WithoutTrailing(e, part) == SubSeq(e, 1, Len(e) - Len(part))

\* C4: a transit-time function whose whitespace-stripped expression ends with
\* *(1+us3) is healed to that expression without the one trailing suffix, and
\* a second run of the healer changes nothing and raises no error.
C4_HealRemovesSuffixOnce ==
    \A k \in DOMAIN orig_functions :
        LET cleaned == RemoveSpaces(orig_functions[k].expression)
        IN  ( /\ heal_runs >= 1
              /\ orig_functions[k].type = "TRANSIT_TIME"
              /\ EndsWith(cleaned, CongestionSuffix)
              /\ OthersClean(k) ) =>
                /\ functions[k].expression = WithoutTrailing(cleaned, CongestionSuffix)
                /\ ~heal_error

\* us3 occurs in e at a place other than inside one trailing *(1+us3).
UsesUs3Elsewhere(e) ==
    \E i \in DOMAIN e :
        /\ e[i] = "us3"
        /\ ~(EndsWith(e, CongestionSuffix) /\ i = Len(e) - 1)

\* C5: for a transit-time function that references us3 anywhere but in the
\* single trailing *(1+us3), the healer raises the conflict error and does
\* not rewrite the function.
C5_OtherUseOfUs3Raises ==
    \A k \in DOMAIN orig_functions :
        ( /\ heal_runs >= 1
          /\ orig_functions[k].type = "TRANSIT_TIME"
          /\ UsesUs3Elsewhere(RemoveSpaces(orig_functions[k].expression))
          /\ OthersClean(k) ) =>
            /\ heal_error
            /\ functions[k].expression = orig_functions[k].expression

(***************************************************************************)
(* _assign_walk_perception.                                                *)
(***************************************************************************)
\* The links of the network, and the link selectors of the overrides with
\* the links each selects.
WalkLinks == {"l1", "l2"}

LinkFilters == {"all", "i=2"}

Selected(selection) == IF selection = "all" THEN WalkLinks ELSE {"l2"}

\* walk_perception_value of an override; str() of the value and the
\* calculator's reading of that text give the value back.
PerceptionValues == {2, 3}

WalkPerceptions ==
    SeqsUpTo([filter : LinkFilters, walk_perception_value : PerceptionValues],
             MaxOverrides)

\* Class i names its own walk-perception attribute.
WalkClassLists ==
    UNION { { s \in [1..n -> [walk_time_perception_attribute :
                                  { WalkAttribute(i) : i \in 1..n },
                              walk_perceptions : WalkPerceptions]] :
                \A i \in 1..n :
                    s[i].walk_time_perception_attribute = WalkAttribute(i) } :
            n \in 1..MaxWalkClasses }

WalkInit ==
    /\ walk_classes \in WalkClassLists
    /\ \E v \in {1, 4} :
          link_attributes =
              [ a \in { WalkAttribute(i) : i \in DOMAIN walk_classes } |->
                  [ l \in WalkLinks |-> v ] ]
    /\ walk_done = FALSE

\* apply_selection(val, selection): one network calculation that writes val
\* on the selected links of the attribute named `result`.
ApplySelection(atts, result, val, selection) ==
    [ atts EXCEPT ![result] =
        [ l \in WalkLinks |-> IF l \in Selected(selection) THEN val ELSE @[l] ] ]

\* The first loop: ex_att.initialize(1.0) for the attribute of every class.
InitializeAll(atts) ==
    [ a \in DOMAIN atts |->
        IF \E i \in DOMAIN walk_classes :
              walk_classes[i].walk_time_perception_attribute = a
        THEN [ l \in WalkLinks |-> 1 ]
        ELSE atts[a] ]

\* The attribute apply_selection writes while class c's overrides are
\* applied: the variable walk_time_perception_attribute of the enclosing
\* method, which the first loop left at the attribute of the LAST class and
\* the second loop does not assign.
ResultAttribute(c) ==
    walk_classes[Len(walk_classes)].walk_time_perception_attribute

\* The second loop, from override w of class c on.
RECURSIVE ApplyOverrides(_, _, _)
ApplyOverrides(c, w, atts) ==
    IF c > Len(walk_classes)
    THEN atts
    ELSE IF w > Len(walk_classes[c].walk_perceptions)
         THEN ApplyOverrides(c + 1, 1, atts)
         ELSE LET wp == walk_classes[c].walk_perceptions[w]
              IN  ApplyOverrides(c, w + 1,
                     ApplySelection(atts, ResultAttribute(c),
                                    wp.walk_perception_value, wp.filter))

AssignWalkPerception ==
    /\ ~walk_done
    /\ link_attributes' = ApplyOverrides(1, 1, InitializeAll(link_attributes))
    /\ walk_done' = TRUE
    /\ UNCHANGED walk_classes

InitWalk == ExecuteIdle /\ HealIdle /\ WalkInit /\ NetIdle /\ HeadwayIdle

NextWalk ==
    \/ AssignWalkPerception /\ UNCHANGED << execute_vars, heal_vars, net_vars, headway_vars >>

SpecWalk == InitWalk /\ [][NextWalk]_vars

(***************************************************************************)
(* Claims about walk perception.                                           *)
(***************************************************************************)
\* The value class c's overrides give link l: that of the last override of
\* c's list whose selector matches l, 1 when none matches.
ExpectedWalkPerception(c, l) ==
    LET wps == walk_classes[c].walk_perceptions
        matching == { w \in DOMAIN wps : l \in Selected(wps[w].filter) }
    IN  IF matching = {} THEN 1 ELSE wps[Max(matching)].walk_perception_value

\* C6: after _assign_walk_perception, class c's own attribute holds on every
\* link the value of the last matching override of c, 1.0 when c has none;
\* the overrides of one class never change the attribute of another.
C6_OwnLastOverrideWins ==
    walk_done =>
        \A c \in DOMAIN walk_classes : \A l \in WalkLinks :
            link_attributes[walk_classes[c].walk_time_perception_attribute][l]
                = ExpectedWalkPerception(c, l)

(***************************************************************************)
(* _publish_efficient_connector_network.                                   *)
(***************************************************************************)
\* The nodes of the network, by number: a centroid, two regular nodes and
\* three regular nodes with agency numbers.
Centroids == {1}

RegularNodes == {2, 3, 100000, 100001, 100002}

NetNodes == Centroids \cup RegularNodes

IsCentroid(n) == n \in Centroids

IsAgency(n) == n > AgencyThreshold

PossibleLinks == { l \in NetNodes \X NetNodes : l[1] # l[2] }

IncomingLinks(node) == { l \in links : l[2] = node }

OutgoingLinks(node) == { l \in links : l[1] = node }

\* The sets of at most k links.
RECURSIVE LinkSets(_)
LinkSets(k) ==
    IF k = 0
    THEN {{}}
    ELSE LET fewer == LinkSets(k - 1)
         IN  fewer \cup { ls \cup {l} : ls \in fewer, l \in PossibleLinks }

NetInit ==
    /\ links \in LinkSets(MaxLinks)
    /\ \E v \in {-1, 0, 1} : data1 = [ n \in NetNodes |-> v ]
    /\ init_data1 = data1
    /\ visited = {}
    /\ net_pc = "reset"

\* The first loop: node.data1 = 0 for every regular node.
ResetMarkers ==
    /\ net_pc = "reset"
    /\ data1' = [ n \in NetNodes |-> IF n \in RegularNodes THEN 0 ELSE data1[n] ]
    /\ net_pc' = "visit"
    /\ UNCHANGED << links, init_data1, visited >>

\* As TouchesCentroid without the loop over the outgoing links.
TouchesCentroidIncomingOnly(node) ==
    \E l \in IncomingLinks(node) : IsCentroid(l[1])

\* Some incoming link comes from a centroid, or some outgoing link goes to one.
TouchesCentroid(node) ==
    \/ \E l \in IncomingLinks(node) : IsCentroid(l[1])
    \/ \E l \in OutgoingLinks(node) : IsCentroid(l[2])

\* As AgencyCounter with the outgoing links to agency nodes counted too.
AgencyCounterBothWays(node) ==
    Cardinality({ l \in IncomingLinks(node) : IsAgency(l[1]) })
        + Cardinality({ l \in OutgoingLinks(node) : IsAgency(l[2]) })

\* agency_counter at the end of the loop over the incoming links.
AgencyCounter(node) ==
    Cardinality({ l \in IncomingLinks(node) : IsAgency(l[1]) })

\* As AgencyNeighbours without the loop over the outgoing links.
AgencyNeighboursIncomingOnly(node) ==
    { l[1] : l \in { x \in IncomingLinks(node) : IsAgency(x[1]) } }

\* The nodes the two loops under `if agency_counter > 1` mark.
AgencyNeighbours(node) ==
    { l[1] : l \in { x \in IncomingLinks(node) : IsAgency(x[1]) } }
       \cup { l[2] : l \in { x \in OutgoingLinks(node) : IsAgency(x[2]) } }

\* The markers after the body of the second loop has run for `node`.
Visit(node, markers) ==
    IF node > AgencyThreshold
    THEN markers
    ELSE [ n \in NetNodes |->
             IF n = node /\ (TouchesCentroid(node) \/ AgencyCounter(node) > 1)
             THEN -1
             ELSE IF AgencyCounter(node) > 1 /\ n \in AgencyNeighbours(node)
                  THEN -1
                  ELSE markers[n] ]

\* One turn of the second loop; regular_nodes() yields the nodes in an order
\* the code does not choose.
VisitNode ==
    /\ net_pc = "visit"
    /\ \E node \in RegularNodes \ visited :
          /\ data1' = Visit(node, data1)
          /\ visited' = visited \cup {node}
    /\ UNCHANGED << links, init_data1, net_pc >>

\* scenario.publish_network(network), after the last node.
PublishNetworkMarkers ==
    /\ net_pc = "visit"
    /\ visited = RegularNodes
    /\ net_pc' = "published"
    /\ UNCHANGED << links, data1, init_data1, visited >>

InitNet == ExecuteIdle /\ HealIdle /\ WalkIdle /\ NetInit /\ HeadwayIdle

NetOnly == UNCHANGED << execute_vars, heal_vars, walk_vars, headway_vars >>

NextNet ==
    \/ ResetMarkers /\ NetOnly
    \/ VisitNode /\ NetOnly
    \/ PublishNetworkMarkers /\ NetOnly

SpecNet == InitNet /\ [][NextNet]_vars

(***************************************************************************)
(* Claims about the connector network.                                     *)
(***************************************************************************)
\* Node n has an incoming link from a centroid or an outgoing link to one.
AtCentroid(n) ==
    \/ \E l \in links : l[2] = n /\ IsCentroid(l[1])
    \/ \E l \in links : l[1] = n /\ IsCentroid(l[2])

\* C9 as stated: after the call every regular node with a link from or to a
\* centroid has marker -1.
C9_EveryRegularNodeAtCentroidMarked ==
    net_pc = "published" =>
        \A n \in RegularNodes : AtCentroid(n) => data1[n] = -1

\* C9 as amended: after the call every regular node with number at most
\* 99999 that has a link from or to a centroid has marker -1, whatever the
\* markers were before.
C9_NonAgencyNodeAtCentroidMarked ==
    net_pc = "published" =>
        \A n \in RegularNodes :
            (~IsAgency(n) /\ AtCentroid(n)) => data1[n] = -1

\* A node of small number has only an outgoing link to a centroid and its
\* marker was not -1 before the call.
C9_Witness ==
    /\ net_pc = "published"
    /\ \E n \in RegularNodes :
          /\ ~IsAgency(n)
          /\ init_data1[n] # -1
          /\ \E l \in links : l[1] = n /\ IsCentroid(l[2])
          /\ ~\E l \in links : l[2] = n /\ IsCentroid(l[1])

AgencySources(n) == { l[1] : l \in { x \in links : x[2] = n /\ IsAgency(x[1]) } }

AdjacentAgencies(n) ==
    AgencySources(n) \cup { l[2] : l \in { x \in links : x[1] = n /\ IsAgency(x[2]) } }

\* C10 as stated, for the nodes the loops run over: after the call every
\* regular node with incoming links from two or more distinct agency nodes
\* has marker -1, and so has every agency node adjacent to it.
C10_EveryAgencyJunctionMarked ==
    net_pc = "published" =>
        \A n \in RegularNodes :
            Cardinality(AgencySources(n)) >= 2 =>
                /\ data1[n] = -1
                /\ \A a \in AdjacentAgencies(n) : data1[a] = -1

\* C10 as amended: after the call every regular node with number at most
\* 99999 that has incoming links from two or more distinct agency nodes has
\* marker -1, and so has every agency node adjacent to it through an
\* incoming or an outgoing link, in whatever order the nodes were visited.
C10_NonAgencyJunctionMarked ==
    net_pc = "published" =>
        \A n \in RegularNodes :
            (~IsAgency(n) /\ Cardinality(AgencySources(n)) >= 2) =>
                /\ data1[n] = -1
                /\ \A a \in AdjacentAgencies(n) : data1[a] = -1

\* A node of small number has two agency sources and an agency node it is
\* linked to by an outgoing link only.
C10_Witness ==
    /\ net_pc = "published"
    /\ \E n \in RegularNodes :
          /\ ~IsAgency(n)
          /\ Cardinality(AgencySources(n)) >= 2
          /\ AdjacentAgencies(n) \ AgencySources(n) # {}

\* C17: after the call the marker of every regular node is 0 or -1, and the
\* marker of a regular node with number at most 99999 is -1 exactly when the
\* node has a link from or to a centroid or more than one incoming link from
\* agency nodes, and 0 otherwise.
C17_MarkerCharacterised ==
    net_pc = "published" =>
        \A n \in RegularNodes :
            /\ data1[n] \in {0, -1}
            /\ ~IsAgency(n) =>
                  /\ data1[n] = -1 <=>
                        (AtCentroid(n) \/ Cardinality(AgencySources(n)) > 1)
                  /\ data1[n] # -1 => data1[n] = 0

\* After a call on markers that were 1, a node of small number away from the
\* centroids is marked for its two agency sources, and another one, with at
\* most one agency source, has marker 0.
C17_Witness ==
    /\ net_pc = "published"
    /\ \A n \in RegularNodes : init_data1[n] = 1
    /\ \E n \in RegularNodes :
          /\ ~IsAgency(n) /\ ~AtCentroid(n)
          /\ Cardinality(AgencySources(n)) = 2
          /\ data1[n] = -1
    /\ \E n \in RegularNodes :
          /\ ~IsAgency(n) /\ ~AtCentroid(n)
          /\ Cardinality(AgencySources(n)) <= 1
          /\ data1[n] = 0

(***************************************************************************)
(* _assign_effective_headway.                                              *)
(*                                                                         *)
(* Headways and the slope are kept in tenths, the result attribute in      *)
(* hundredths, so that the products of the expression are integers.        *)
(***************************************************************************)
HeadwayLines == {"a", "b"}

\* The scheduled headways of a line: 0, 0.1, 10, 14.9, 15, 15.1, 100, 999,
\* 999.1 and 1000 minutes.
Headways == {0, 1, 100, 149, 150, 151, 1000, 9990, 9991, 10000}

\* parameters["effective_headway_slope"]: 0, 0.5, 1 and 1.5.
Slopes == {0, 5, 10, 15}

\* str(slope), the text spliced into the expression of the large headways.
StrOfSlope(slope) ==
    CASE slope = 0 -> "0" [] slope = 5 -> "0.5" [] slope = 10 -> "1" [] slope = 15 -> "1.5"

\* The number the network calculator reads from a text of the expression.
NumberOfText(text) ==
    CASE text = "0" -> 0 [] text = "0.5" -> 5 [] text = "1" -> 10 [] text = "1.5" -> 15

\* As InSelection without the upper end of the range.
InSelectionBelowUpper(h, lower, upper) == lower <= h /\ h < upper

\* A selection "hdw=lower,upper" of transit lines: the lines whose headway is
\* in the range, both ends included.
InSelection(h, lower, upper) == lower <= h /\ h <= upper

\* small_headway_spec: expression "hdw" on the selection "hdw=0,15".
SmallHeadwaySpec ==
    [lower |-> 0, upper |-> 150, constant |-> "", slope |-> ""]

\* large_headway_spec: expression "15+2*" + str(slope) + "*(hdw-15)" on the
\* selection "hdw=15,999".
LargeHeadwaySpec ==
    [lower |-> 150, upper |-> 9990, constant |-> "15",
     slope |-> StrOfSlope(effective_headway_slope)]

\* The value of a specification's expression for a headway, in hundredths.
ExpressionValue(spec, h) ==
    IF spec.constant = ""
    THEN 10 * h
    ELSE 1500 + 2 * NumberOfText(spec.slope) * (h - 150)

\* network_calc_tool(spec, scenario): the result attribute of every selected
\* line is set to the value of the expression, the others are left alone.
NetworkCalc(spec, result) ==
    [ line \in DOMAIN result |->
        IF InSelection(hdw[line], spec.lower, spec.upper)
        THEN ExpressionValue(spec, hdw[line])
        ELSE result[line] ]

\* The result attribute as create_temp_attribute leaves it: default_value=0.0.
HeadwayInit ==
    /\ hdw \in [HeadwayLines -> Headways]
    /\ effective_headway_attribute = [ line \in HeadwayLines |-> 0 ]
    /\ effective_headway_slope \in Slopes
    /\ headway_pc = "small"

SmallHeadwayCalc ==
    /\ headway_pc = "small"
    /\ effective_headway_attribute' = NetworkCalc(SmallHeadwaySpec, effective_headway_attribute)
    /\ headway_pc' = "large"
    /\ UNCHANGED << hdw, effective_headway_slope >>

LargeHeadwayCalc ==
    /\ headway_pc = "large"
    /\ effective_headway_attribute' = NetworkCalc(LargeHeadwaySpec, effective_headway_attribute)
    /\ headway_pc' = "done"
    /\ UNCHANGED << hdw, effective_headway_slope >>

InitHeadway == ExecuteIdle /\ HealIdle /\ WalkIdle /\ NetIdle /\ HeadwayInit

HeadwayOnly == UNCHANGED << execute_vars, heal_vars, walk_vars, net_vars >>

NextHeadway ==
    \/ SmallHeadwayCalc /\ HeadwayOnly
    \/ LargeHeadwayCalc /\ HeadwayOnly

SpecHeadway == InitHeadway /\ [][NextHeadway]_vars

\* The two calculations in the other order, from the attribute as created.
LargeThenSmall ==
    NetworkCalc(SmallHeadwaySpec,
        NetworkCalc(LargeHeadwaySpec, [ line \in HeadwayLines |-> 0 ]))

\* C12: after _assign_effective_headway a line of headway h in (0, 15] has
\* effective headway h, a line of headway h in (15, 999] has
\* 15 + 2*slope*(h - 15); at h = 15 the value is 15, and it is 15 too when the
\* two calculations run in the other order.
C12_PiecewiseEffectiveHeadway ==
    headway_pc = "done" =>
        \A line \in HeadwayLines :
            LET h == hdw[line]
            IN  /\ (0 < h /\ h <= 150) => effective_headway_attribute[line] = 10 * h
                /\ (150 < h /\ h <= 9990) =>
                      effective_headway_attribute[line]
                          = 1500 + 2 * effective_headway_slope * (h - 150)
                /\ h = 150 =>
                      /\ effective_headway_attribute[line] = 1500
                      /\ LargeThenSmall[line] = 1500

\* Both calculations have run on a line at the boundary and a line at the
\* upper end, with a slope that is not 0.5.
C12_Witness ==
    /\ headway_pc = "done"
    /\ effective_headway_slope = 15
    /\ \E line \in HeadwayLines : hdw[line] = 150
    /\ \E line \in HeadwayLines : hdw[line] = 9990

====
